---- MODULE Spec2Model ----
(***************************************************************************)
(* A model of src/cli.py (Napier, an interactive MCP client): the          *)
(* interactive loop of NapierClient.chat_loop, the two chat paths          *)
(* (chat_with_gemini, process_query), the two connect operations, the      *)
(* extraction of fenced tool calls from model text, and main()'s           *)
(* start-up and shutdown.                                                  *)
(*                                                                         *)
(* Text is modelled as a sequence of lexemes (records [t, v, bt]); bt      *)
(* says that the lexeme's characters include a backtick, which is what the *)
(* extraction pattern of process_query looks at.                           *)
(***************************************************************************)
EXTENDS Integers, Sequences, FiniteSets, TLC

\* Bounds of the model.
MaxOps == 3
MaxBlocks == 2

None == "None"

-----------------------------------------------------------------------------
(* Text: lexemes, and the format the system prompt asks the model to use.  *)

Tok(t, v, bt) == [t |-> t, v |-> v, bt |-> bt]

FENCE == Tok("fence", "3 backticks", TRUE)
TAG == Tok("tag", "json", FALSE)
WS == Tok("ws", " ", FALSE)
PROSE == Tok("prose", "words", FALSE)
LBRACE == Tok("lbrace", "{", FALSE)
RBRACE == Tok("rbrace", "}", FALSE)
COMMA == Tok("comma", ",", FALSE)
\* The member  "tool_name": "<n>"  of a JSON object.
NameMember(n) == Tok("tool_name", n, FALSE)
\* The member  "parameters": {<p>}  of a JSON object; tick says that a string
\* inside it holds a backtick character.
ParamsMember(p, tick) == Tok("parameters", p, tick)

\* What the model may write: plain prose, or a fenced block tagged json.
\*   call      {"tool_name": n, "parameters": p}
\*   noparams  {"tool_name": n}
\*   noname    {"parameters": p}
\*   tick      a call whose parameters hold a backtick inside a string
\*   badjson   {"tool_name": n,}          (a trailing comma)
\*   unclosed  {"tool_name": n            (the closing brace is missing)
Seg(kind, n, p) == [kind |-> kind, name |-> n, params |-> p]

Fenced(body) == <<FENCE, TAG, WS>> \o body \o <<WS, FENCE>>

Render(seg) ==
    CASE seg.kind = "prose" -> <<PROSE>>
      [] seg.kind = "call" ->
            Fenced(<<LBRACE, NameMember(seg.name), COMMA,
                     ParamsMember(seg.params, FALSE), RBRACE>>)
      [] seg.kind = "noparams" -> Fenced(<<LBRACE, NameMember(seg.name), RBRACE>>)
      [] seg.kind = "noname" ->
            Fenced(<<LBRACE, ParamsMember(seg.params, FALSE), RBRACE>>)
      [] seg.kind = "tick" ->
            Fenced(<<LBRACE, NameMember(seg.name), COMMA,
                     ParamsMember(seg.params, TRUE), RBRACE>>)
      [] seg.kind = "badjson" ->
            Fenced(<<LBRACE, NameMember(seg.name), COMMA, RBRACE>>)
      [] seg.kind = "unclosed" -> Fenced(<<LBRACE, NameMember(seg.name)>>)

RECURSIVE ResponseText(_)
ResponseText(segs) ==
    IF segs = <<>> THEN <<>>
    ELSE Render(Head(segs)) \o <<WS>> \o ResponseText(Tail(segs))

\* A fenced block is well-formed when it is a fenced JSON object; it is a
\* malformed block when it is fenced and tagged but is no JSON object.
WellFormedKinds == {"call", "noparams", "noname", "tick"}
MalformedKinds == {"badjson", "unclosed"}

-----------------------------------------------------------------------------
(* re.findall(tool_call_pattern, response_text): a fence of three         *)
(* backticks tagged json, whitespace, a group from a brace to a brace       *)
(* holding no backtick, whitespace, a fence of three backticks.             *)

HasBacktick(tok) == tok.bt

RECURSIVE SkipWs(_, _)
SkipWs(text, i) ==
    IF i <= Len(text) /\ text[i].t = "ws" THEN SkipWs(text, i + 1) ELSE i

\* The first position from i on whose lexeme holds a backtick.
RECURSIVE NextTick(_, _)
NextTick(text, i) ==
    IF i > Len(text) \/ HasBacktick(text[i]) THEN i ELSE NextTick(text, i + 1)

RECURSIVE LastNonWs(_, _)
LastNonWs(text, j) ==
    IF j >= 1 /\ text[j].t = "ws" THEN LastNonWs(text, j - 1) ELSE j

\* The pattern at position i: the fence and its tag, \s*, then a group that
\* opens with a brace, holds no backtick and closes with the last brace
\* before \s* and the next three backticks.
MatchAt(text, i) ==
    LET s == SkipWs(text, i + 2)
        b == NextTick(text, s + 1)
        e == LastNonWs(text, b - 1)
    IN  IF /\ i + 1 <= Len(text)
           /\ text[i].t = "fence"
           /\ text[i + 1].t = "tag"
           /\ s <= Len(text)
           /\ text[s].t = "lbrace"
           /\ b <= Len(text)
           /\ text[b].t = "fence"
           /\ e > s
           /\ text[e].t = "rbrace"
        THEN [ok |-> TRUE, group |-> SubSeq(text, s, e), next |-> b + 1]
        ELSE [ok |-> FALSE, group |-> <<>>, next |-> i + 1]

RECURSIVE FindAllFrom(_, _)
FindAllFrom(text, i) ==
    IF i > Len(text) THEN <<>>
    ELSE LET m == MatchAt(text, i)
         IN  IF m.ok THEN <<m.group>> \o FindAllFrom(text, m.next)
             ELSE FindAllFrom(text, m.next)

\* A faulty search that yields the groups last to first.
Reversed(seq) == [k \in 1..Len(seq) |-> seq[Len(seq) + 1 - k]]
FindAll_Reversed(text) == Reversed(FindAllFrom(text, 1))

FindAll(text) == FindAllFrom(text, 1)

-----------------------------------------------------------------------------
(* json.loads(tool_call_json) and dict.get                                 *)

IsWs(tok) == tok.t = "ws"
NotWs(tok) == ~IsWs(tok)
IsMember(tok) == tok.t \in {"tool_name", "parameters"}

\* The lexemes between the braces of a group, whitespace dropped.
Inner(g) == SelectSeq(SubSeq(g, 2, Len(g) - 1), NotWs)

\* json.loads raises JSONDecodeError unless the group is an object: members
\* separated by single commas.
JsonLoadsOk(g) ==
    LET in == Inner(g)
    IN  \/ Len(in) = 0
        \/ /\ Len(in) % 2 = 1
           /\ \A k \in 1..Len(in) :
                IF k % 2 = 1 THEN IsMember(in[k]) ELSE in[k].t = "comma"

\* tool_call.get(key, default): the value of the last member with that key.
RECURSIVE LastOf(_, _, _)
LastOf(in, key, default) ==
    IF in = <<>> THEN default
    ELSE IF in[Len(in)].t = key THEN in[Len(in)].v
         ELSE LastOf(SubSeq(in, 1, Len(in) - 1), key, default)

DictGet(g, key, default) == LastOf(Inner(g), key, default)

-----------------------------------------------------------------------------
(* Strings of tool output: a sequence of runs [k, n, s] of n characters,   *)
(* k the kind of the run and s what it says.                               *)

Run(k, n, s) == [k |-> k, n |-> n, s |-> s]

RECURSIVE StrLen(_)
StrLen(str) == IF str = <<>> THEN 0 ELSE Head(str).n + StrLen(Tail(str))

\* str[:n]
RECURSIVE Take(_, _)
Take(str, n) ==
    IF str = <<>> \/ n <= 0 THEN <<>>
    ELSE IF Head(str).n <= n
         THEN <<Head(str)>> \o Take(Tail(str), n - Head(str).n)
         ELSE <<[Head(str) EXCEPT !.n = n]>>

RECURSIVE LStrip(_)
LStrip(str) ==
    IF str # <<>> /\ Head(str).k = "ws" THEN LStrip(Tail(str)) ELSE str

RECURSIVE RStrip(_)
RStrip(str) ==
    IF str # <<>> /\ str[Len(str)].k = "ws"
    THEN RStrip(SubSeq(str, 1, Len(str) - 1))
    ELSE str

Strip(str) == RStrip(LStrip(str))

\* re.sub of a fence with its tag and newline, then re.sub of a bare fence.
NotFenceLine(r) == r.k # "fenceline"
NotFence(r) == r.k # "fence"
\* A faulty removal that takes out only the first fence of each kind.
RECURSIVE DropFirst(_, _)
DropFirst(str, kind) ==
    IF str = <<>> THEN <<>>
    ELSE IF Head(str).k = kind THEN Tail(str)
         ELSE <<Head(str)>> \o DropFirst(Tail(str), kind)
StripFences_First(str) == DropFirst(DropFirst(str, "fenceline"), "fence")

StripFences(str) == SelectSeq(SelectSeq(str, NotFenceLine), NotFence)

\* word in tool_name.lower(), for the tool names of the model.
ToolWords(tool_name) ==
    CASE tool_name = "playwright_screenshot" -> {"playwright", "screenshot"}
      [] tool_name = "playwright_navigate" -> {"playwright", "navigate"}
      [] tool_name = "playwright_click" -> {"playwright", "click"}
      [] tool_name = "playwright_get_content" -> {"playwright", "get", "content"}
      [] tool_name = "playwright_fill" -> {"playwright"}
      [] tool_name = "get_content" -> {"get", "content"}
      [] OTHER -> {}

InName(word, tool_name) == word \in ToolWords(tool_name)

TruncateAbove == 1000
TruncateKeep == 997
Dots == Run("text", 3, "...")

\* A faulty limit that truncates from 1000 characters on.
Truncated_AtLimit(str) ==
    IF StrLen(str) >= TruncateAbove THEN Take(str, TruncateKeep) \o <<Dots>> ELSE str

Truncated(str) ==
    IF StrLen(str) > TruncateAbove THEN Take(str, TruncateKeep) \o <<Dots>> ELSE str

\* NapierClient._clean_tool_output; tool_name None has no lower(): it raises.
CleanRaises(tool_name) == tool_name = None

clean_tool_output(tool_name, output) ==
    IF InName("playwright", tool_name)
    THEN LET o1 == StripFences(output)
         IN  IF InName("screenshot", tool_name)
             THEN <<Run("text", 33, "Screenshot captured successfully.")>>
             ELSE IF InName("navigate", tool_name) \/ InName("goto", tool_name)
             THEN <<Run("text", 45, "Navigated to the requested page successfully.")>>
             ELSE IF InName("click", tool_name)
             THEN <<Run("text", 33, "Clicked on the specified element.")>>
             ELSE LET o2 == IF InName("get", tool_name) /\ InName("content", tool_name)
                            THEN Truncated(Strip(o1))
                            ELSE o1
                  IN  IF StrLen(Strip(o2)) = 0
                      THEN <<Run("text", 33, "Operation completed successfully.")>>
                      ELSE o2
    ELSE output

-----------------------------------------------------------------------------
(* The pieces of the text a turn returns.                                  *)

Piece(t, i, name, content) == [t |-> t, i |-> i, name |-> name, content |-> content]

\* f"\n[Tool Result]\n{result_content}\n" of call i
ResultStr(i, tool_name, result_content) == Piece("tool_result", i, tool_name, result_content)
\* followup_response.text of call i
Narration(i, tool_name) == Piece("narration", i, tool_name, <<>>)
InvalidFormat(i) == Piece("Error: Invalid tool call format detected.", i, None, <<>>)
ErrorExecuting(i) == Piece("Error executing tool", i, None, <<>>)
NL == Piece("\n", 0, None, <<>>)
\* response_text returned as it is
WholeResponse == Piece("response_text", 0, None, <<>>)
ErrorText == Piece("Error", 0, None, <<>>)

\* A faulty join that returns only the last part.
Join_LastOnly(parts) == IF parts = <<>> THEN parts ELSE <<parts[Len(parts)]>>

\* "\n".join(final_response)
RECURSIVE Join(_)
Join(parts) ==
    IF Len(parts) <= 1 THEN parts
    ELSE <<Head(parts), NL>> \o Join(Tail(parts))

-----------------------------------------------------------------------------
(* The state of the process.                                               *)

VARIABLES
    pc,               \* where the process is
    chat_history,     \* NapierClient.chat_history
    session,          \* NapierClient.session
    connected_server, \* NapierClient.connected_server
    exit_stack,       \* the contexts entered in NapierClient.exit_stack
    installs,         \* runs of "playwright install chromium"
    user_input,       \* the line chat_loop is handling (a sequence of words)
    reply,            \* what the model wrote in response_text (segments)
    tool_calls,       \* process_query: the groups re.findall returned
    idx,              \* process_query: the position of the for loop
    call,             \* process_query: tool_name and parameters of the call
    result,           \* process_query: result.content of the call
    result_content,   \* process_query: the cleaned result.content
    final_response,   \* process_query: the list final_response
    returned,         \* the text the chat path returned to chat_loop
    thinking,         \* is the ThinkingAnimation of the turn running
    tool_thinking,    \* the tool ThinkingAnimations of the turn still running
    out,              \* what the handling of this line printed
    invoked,          \* the session.call_tool calls of this line
    model_calls,      \* the chat.send_message calls of this line
    results,          \* how each extracted block of this line ended
    raised,           \* the Exceptions raised while this line was handled
    h0,               \* Len(chat_history) when the line was read
    cleanups,         \* runs of NapierClient.cleanup
    exit_cause,       \* why the process is ending
    ops               \* connect attempts and utterances so far

prog == <<chat_history, session, connected_server, exit_stack, installs>>
turn == <<reply, tool_calls, idx, call, result, result_content, final_response, returned, thinking,
          tool_thinking>>
ghost == <<out, invoked, model_calls, results, raised, h0>>
proc == <<cleanups, exit_cause, ops>>
vars == <<pc, prog, user_input, turn, ghost, proc>>

NoSession == [server |-> None, initialized |-> FALSE, at |-> 0]
NoCall == [tool_name |-> None, parameters |-> None]
NoText == <<>>

\* {"role": role, "parts": [parts]}; n counts the utterances, so that the
\* Turns of different utterances differ.
Turn(role, parts, n) == [role |-> role, parts |-> parts, n |-> n]

IsUserTurn(t) == t.role = "user"
Utterances(h) == Len(SelectSeq(h, IsUserTurn))

\* The scripts and configured servers of the model; napier_config.json
\* configures "playwright" and nothing called "missing".
Paths == {"server.py", "notes.txt"}
ServerNames == {"playwright", "missing"}
McpServers == {"playwright"}

\* server_script_path.endswith('.py'), endswith('.js')
EndsWith(path, ext) ==
    \/ ext = ".py" /\ path \in {"server.py"}
    \/ ext = ".js" /\ path \in {"server.js"}

\* NapierConfig.get_server_config
get_server_config(server_name) ==
    IF server_name \in McpServers THEN server_name ELSE None

\* What the model writes on the tool-augmented path.
Prose == Seg("prose", None, None)
Blocks == {Seg("call", "search", "q=cats"), Seg("call", "fetch", "url=x"),
           Seg("badjson", "search", None)}
AllBlocks == Blocks \cup
    {Seg("noparams", "search", None), Seg("noname", None, "q=cats"),
     Seg("tick", "search", "q=cats"), Seg("unclosed", "search", None), Prose}

SeqsUpTo(S, n) == UNION {[1..k -> S] : k \in 0..n}
Replies(B) == {<<Prose>> \o b : b \in SeqsUpTo(B, MaxBlocks)}

response_text == ResponseText(reply)

\* response.tools of session.list_tools(): the server offers one tool.
EnumeratedTools == {"search"}

\* result.content of a tool call
ToolOutput == <<Run("text", 5, "found")>>

\* The lines a user types, as words separated by one space.
Lines ==
    {<<"/exit">>, <<"/QUIT">>, <<"/servers">>, <<"/tools">>, <<"/help">>,
     <<"/foo">>, <<"/connect">>, <<>>, <<"hello">>,
     <<"/use", "search">>, <<"/use", "search", "cats">>}
    \cup {<<"/connect", p>> : p \in Paths}
    \cup {<<"/connect-server", n>> : n \in ServerNames}

Init ==
    /\ pc = "start"
    /\ chat_history = <<>>
    /\ session = NoSession
    /\ connected_server = None
    /\ exit_stack = <<>>
    /\ installs = 0
    /\ user_input = <<>>
    /\ reply = <<>>
    /\ tool_calls = <<>>
    /\ idx = 0
    /\ call = NoCall
    /\ result = NoText
    /\ result_content = NoText
    /\ final_response = <<>>
    /\ returned = NoText
    /\ thinking = FALSE
    /\ tool_thinking = 0
    /\ out = <<>>
    /\ invoked = <<>>
    /\ model_calls = 0
    /\ results = <<>>
    /\ raised = 0
    /\ h0 = 0
    /\ cleanups = 0
    /\ exit_cause = None
    /\ ops = 0

\* The locals of a handler that is not running, and nothing observed yet.
Fresh ==
    /\ user_input' = <<>>
    /\ reply' = <<>>
    /\ tool_calls' = <<>>
    /\ idx' = 0
    /\ call' = NoCall
    /\ result' = NoText
    /\ result_content' = NoText
    /\ final_response' = <<>>
    /\ returned' = NoText
    /\ thinking' = FALSE
    /\ tool_thinking' = 0
    /\ out' = <<>>
    /\ invoked' = <<>>
    /\ model_calls' = 0
    /\ results' = <<>>
    /\ raised' = 0
    /\ h0' = Len(chat_history)

-----------------------------------------------------------------------------
(* Connecting: connect_to_server and connect_to_server_from_config.        *)

Ctx(kind, server) == [ctx |-> kind, server |-> server]

\* How far an attempt gets: the transport is not spawned; the handshake
\* (session.initialize) fails; the first list_tools fails; all of it works;
\* or an interrupt arrives during the handshake.
ConnectOutcomes == {"spawn_fail", "init_fail", "list_fail", "ok", "interrupt"}

\* The try block of both connect operations: stdio_client and ClientSession
\* are entered into exit_stack, self.session is assigned, then initialize and
\* list_tools are awaited.
EnterContexts(server, o) ==
    IF o = "spawn_fail" THEN exit_stack
    ELSE exit_stack \o <<Ctx("stdio_client", server), Ctx("ClientSession", server)>>

AssignSession(server, o) ==
    IF o = "spawn_fail" THEN session
    ELSE [server |-> server,
          initialized |-> o \in {"list_fail", "ok"},
          at |-> Len(exit_stack) + 2]

ConnectPrints(o) ==
    IF o = "ok" THEN <<"Connecting", "Successfully connected">>
    ELSE IF o = "interrupt" THEN <<"Connecting">>
    ELSE <<"Connecting", "Error connecting to server">>

\* The Exceptions of an attempt (an interrupt is not an Exception).
ConnectRaises(o) == IF o \in {"spawn_fail", "init_fail", "list_fail"} THEN 1 ELSE 0

\* is_python or is_js
ScriptOk(path) == EndsWith(path, ".py") \/ EndsWith(path, ".js")

\* connect_to_server(server_script_path). A script that is neither .py nor
\* .js raises ValueError out of the function, after connected_server is set;
\* caller_prints is what the caller's handler of that error prints.
connect_to_server(path, o, caller_prints) ==
    /\ connected_server' = path
    /\ IF ScriptOk(path)
       THEN /\ exit_stack' = EnterContexts(path, o)
            /\ session' = AssignSession(path, o)
            /\ out' = ConnectPrints(o)
            /\ raised' = raised + ConnectRaises(o)
       ELSE /\ UNCHANGED <<exit_stack, session>>
            /\ out' = caller_prints
            /\ raised' = raised + 1
    /\ UNCHANGED installs

\* initialize_playwright runs the browser installation once per call.
initialize_playwright == installs' = installs + 1

\* server_name.lower() == "playwright"
IsPlaywright(server_name) == server_name = "playwright"

connect_to_server_from_config(server_name, o) ==
    IF get_server_config(server_name) = None
    THEN /\ out' = <<"Error: Server not found in configuration">>
         /\ UNCHANGED <<connected_server, exit_stack, session, installs, raised>>
    ELSE /\ connected_server' = server_name
         /\ exit_stack' = EnterContexts(server_name, o)
         /\ session' = AssignSession(server_name, o)
         /\ out' = ConnectPrints(o)
         /\ raised' = raised + ConnectRaises(o)
         /\ IF o = "ok" /\ IsPlaywright(server_name)
            THEN initialize_playwright
            ELSE UNCHANGED installs

-----------------------------------------------------------------------------
(* main(): the client, the start-up connect, the loop, cleanup.            *)

\* A faulty main() whose cleanup is not in a finally clause: an exception
\* that unwinds ends the process without it.
Unwind_NoFinally(cause) ==
    /\ pc' = "done"
    /\ exit_cause' = cause
    /\ user_input' = <<>>
    /\ reply' = <<>>
    /\ tool_calls' = <<>>
    /\ idx' = 0
    /\ call' = NoCall
    /\ result' = NoText
    /\ result_content' = NoText
    /\ final_response' = <<>>
    /\ returned' = NoText
    /\ invoked' = <<>>
    /\ model_calls' = 0
    /\ results' = <<>>
    /\ raised' = 0
    /\ h0' = Len(chat_history)

\* An exception that no handler of the turn catches unwinds to main's
\* finally; the locals of the handlers are gone.
Unwind(cause) ==
    /\ pc' = "cleanup"
    /\ exit_cause' = cause
    /\ user_input' = <<>>
    /\ reply' = <<>>
    /\ tool_calls' = <<>>
    /\ idx' = 0
    /\ call' = NoCall
    /\ result' = NoText
    /\ result_content' = NoText
    /\ final_response' = <<>>
    /\ returned' = NoText
    /\ invoked' = <<>>
    /\ model_calls' = 0
    /\ results' = <<>>
    /\ raised' = 0
    /\ h0' = Len(chat_history)

\* The exit status of the process: sys.exit(1) and an uncaught exception
\* give 1; a return of main() and the caught KeyboardInterrupt give 0.
ExitStatus(cause) == IF cause \in {"no api key", "error"} THEN 1 ELSE 0

\* A faulty constructor that reports the missing key and goes on.
NewClient_NoExit ==
    /\ pc = "start"
    /\ \E key \in BOOLEAN :
        /\ pc' = "main"
        /\ exit_cause' = IF key THEN exit_cause ELSE "no api key"
    /\ UNCHANGED <<prog, user_input, turn, ghost, cleanups, ops>>

\* NapierClient(): without GEMINI_API_KEY the constructor calls sys.exit(1).
NewClient ==
    /\ pc = "start"
    /\ \E key \in BOOLEAN :
        IF key
        THEN /\ pc' = "main"
             /\ UNCHANGED exit_cause
        ELSE /\ pc' = "done"
             /\ exit_cause' = "no api key"
    /\ UNCHANGED <<prog, user_input, turn, ghost, cleanups, ops>>

\* len(sys.argv) == 1: straight to chat_loop.
StartupNoArg ==
    /\ pc = "main"
    /\ pc' = "prompt"
    /\ UNCHANGED <<prog, user_input, turn, ghost, proc>>

\* if len(sys.argv) > 1: await client.connect_to_server(sys.argv[1])
StartupConnect ==
    /\ pc = "main"
    /\ \E path \in Paths, o \in ConnectOutcomes :
        /\ connect_to_server(path, o, <<>>)
        /\ IF ~ScriptOk(path)
           THEN pc' = "cleanup" /\ exit_cause' = "error"
           ELSE IF o = "interrupt"
           THEN pc' = "cleanup" /\ exit_cause' = "interrupt"
           ELSE pc' = "handled" /\ UNCHANGED exit_cause
    /\ ops' = ops + 1
    /\ UNCHANGED <<chat_history, user_input, turn, invoked, model_calls, results,
                   h0, cleanups>>

\* finally: await client.cleanup()
cleanup ==
    /\ pc = "cleanup"
    /\ exit_stack' = <<>>
    /\ cleanups' = cleanups + 1
    /\ pc' = "done"
    /\ UNCHANGED <<chat_history, session, connected_server, installs, user_input,
                   turn, ghost, exit_cause, ops>>

-----------------------------------------------------------------------------
(* chat_loop: one line.                                                    *)

Lower(w) == CASE w = "/EXIT" -> "/exit" [] w = "/QUIT" -> "/quit" [] OTHER -> w

SlashWords == {"/exit", "/quit", "/EXIT", "/QUIT", "/servers", "/tools", "/help",
               "/foo", "/connect", "/connect-server", "/use"}
StartsWithSlash(u) == Len(u) > 0 /\ u[1] \in SlashWords

\* The if/elif chain of chat_loop.
Branch(u) ==
    LET w == IF Len(u) > 0 THEN Lower(u[1]) ELSE ""
    IN  IF Len(u) = 1 /\ w \in {"/exit", "/quit"} THEN "exit"
        ELSE IF Len(u) >= 2 /\ w = "/connect" THEN "connect"
        ELSE IF Len(u) >= 2 /\ w = "/connect-server" THEN "connect-server"
        ELSE IF Len(u) = 1 /\ w = "/servers" THEN "servers"
        ELSE IF Len(u) = 1 /\ w = "/tools" THEN "tools"
        ELSE IF Len(u) = 1 /\ w = "/help" THEN "help"
        ELSE IF Len(u) >= 2 /\ w = "/use" THEN "use"
        ELSE IF Len(u) > 0 /\ StartsWithSlash(u) THEN "unknown"
        ELSE IF Len(u) > 0 THEN "chat"
        ELSE "empty"

\* What chat_loop's except clause prints.
LoopError == "Error (chat_loop)"

\* Prompt.ask returns the line u.
Read(u) ==
    /\ pc = "prompt"
    /\ u \in Lines
    /\ user_input' = u

\* while True: the handler of the line is over, the next prompt is built.
LoopBack ==
    /\ pc = "handled"
    /\ pc' = "prompt"
    /\ Fresh
    /\ UNCHANGED <<prog, proc>>

ExitCmd ==
    \E u \in Lines :
        /\ Read(u)
        /\ Branch(u) = "exit"
        /\ out' = <<"Exiting Napier">>
        /\ pc' = "cleanup"
        /\ exit_cause' = "exit"
        /\ UNCHANGED <<prog, turn, invoked, model_calls, results, raised, h0, cleanups, ops>>

\* connect_to_server raises ValueError for a script that is neither .py nor
\* .js: chat_loop's except prints it.
ConnectCmd ==
    \E u \in Lines, o \in ConnectOutcomes :
        /\ Read(u)
        /\ Branch(u) = "connect"
        /\ ops < MaxOps
        /\ ops' = ops + 1
        /\ connect_to_server(u[2], o, <<LoopError>>)
        /\ IF ScriptOk(u[2]) /\ o = "interrupt"
           THEN pc' = "cleanup" /\ exit_cause' = "interrupt"
           ELSE pc' = "handled" /\ UNCHANGED exit_cause
        /\ UNCHANGED <<chat_history, turn, invoked, model_calls, results, h0,
                       cleanups>>

ConnectServerCmd ==
    \E u \in Lines, o \in ConnectOutcomes :
        /\ Read(u)
        /\ Branch(u) = "connect-server"
        /\ ops < MaxOps
        /\ ops' = ops + 1
        /\ connect_to_server_from_config(u[2], o)
        /\ IF get_server_config(u[2]) # None /\ o = "interrupt"
           THEN pc' = "cleanup" /\ exit_cause' = "interrupt"
           ELSE pc' = "handled" /\ UNCHANGED exit_cause
        /\ UNCHANGED <<chat_history, turn, invoked, model_calls, results, h0,
                       cleanups>>

\* /servers, /help, an unknown command and an empty line only print.
PrintCmd ==
    \E u \in Lines :
        /\ Read(u)
        /\ Branch(u) \in {"servers", "help", "unknown", "empty"}
        /\ out' = CASE Branch(u) = "servers" -> <<"MCP Servers">>
                    [] Branch(u) = "help" -> <<"Napier Help">>
                    [] Branch(u) = "unknown" -> <<"Unknown command">>
                    [] OTHER -> <<>>
        /\ pc' = "handled"
        /\ UNCHANGED <<prog, turn, invoked, model_calls, results, raised, h0, proc>>

\* /tools: NapierClient.list_tools
ToolsCmd ==
    \E u \in Lines, ok \in BOOLEAN :
        /\ Read(u)
        /\ Branch(u) = "tools"
        /\ IF session = NoSession
           THEN ok /\ out' = <<"Not connected">> /\ UNCHANGED raised
           ELSE /\ ok => session.initialized
                /\ out' = IF ok THEN <<"Available Tools">> ELSE <<LoopError>>
                /\ raised' = IF ok THEN raised ELSE raised + 1
        /\ pc' = "handled"
        /\ UNCHANGED <<prog, turn, invoked, model_calls, results, h0, proc>>

\* A faulty append that starts the history over with each query.
AppendUserTurn_Reset ==
    chat_history' = <<Turn("user", "query", Utterances(chat_history) + 1)>>

\* self.chat_history.append({"role": "user", "parts": [query]})
AppendUserTurn ==
    chat_history' = Append(chat_history,
                           Turn("user", "query", Utterances(chat_history) + 1))

\* A faulty append that loses the model's Turn.
AppendModelTurn_Lost(text) == UNCHANGED chat_history

\* self.chat_history.append({"role": "model", "parts": [text]}); the text is
\* the answer to the direct prompt, the answer to the tool prompt, or the
\* narration of a tool result.
AppendModelTurn(text) ==
    chat_history' = Append(chat_history,
                           Turn("model", text, Utterances(chat_history)))

\* process_query up to its first await: the user Turn is appended.
EnterProcessQuery ==
    /\ AppendUserTurn
    /\ ops' = ops + 1
    /\ pc' = "pq_list"
    /\ UNCHANGED <<session, connected_server, exit_stack, installs, turn, ghost,
                   cleanups, exit_cause>>

\* chat_with_gemini up to chat.send_message: the user Turn is appended and
\* the animation started.
EnterChatWithGemini ==
    /\ AppendUserTurn
    /\ ops' = ops + 1
    /\ thinking' = TRUE
    /\ pc' = "dc_model"
    /\ UNCHANGED <<session, connected_server, exit_stack, installs, reply,
                   tool_calls, idx, call, result, result_content, final_response, returned, tool_thinking,
                   ghost, cleanups, exit_cause>>

\* /use <tool> <query>
UseCmd ==
    \E u \in Lines :
        /\ Read(u)
        /\ Branch(u) = "use"
        /\ IF session = NoSession
           THEN /\ out' = <<"Not connected">>
                /\ pc' = "handled"
                /\ UNCHANGED <<prog, turn, invoked, model_calls, results, raised, h0, proc>>
           ELSE IF Len(u) < 3
           THEN /\ out' = <<"Please provide a query">>
                /\ pc' = "handled"
                /\ UNCHANGED <<prog, turn, invoked, model_calls, results, raised, h0, proc>>
           ELSE /\ ops < MaxOps
                /\ EnterProcessQuery

\* Any other line that is not blank is a chat utterance.
ChatCmd ==
    \E u \in Lines :
        /\ Read(u)
        /\ Branch(u) = "chat"
        /\ ops < MaxOps
        /\ IF session # NoSession
           THEN EnterProcessQuery
           ELSE EnterChatWithGemini

\* Ctrl-C while Prompt.ask waits.
PromptInterrupt ==
    /\ pc = "prompt"
    /\ pc' = "cleanup"
    /\ exit_cause' = "interrupt"
    /\ UNCHANGED <<prog, user_input, turn, ghost, cleanups, ops>>

\* A faulty loop whose try does not cover Prompt.ask: EOFError ends it.
PromptEOF_Escapes ==
    /\ pc = "prompt"
    /\ Unwind("error")
    /\ out' = <<>>
    /\ UNCHANGED <<prog, thinking, tool_thinking, cleanups, ops>>

\* Prompt.ask raises EOFError (the input is closed): an Exception, so
\* chat_loop's except prints it and the loop goes on.
PromptEOF ==
    /\ pc = "prompt"
    /\ out' = <<LoopError>>
    /\ raised' = raised + 1
    /\ pc' = "handled"
    /\ UNCHANGED <<prog, user_input, turn, invoked, model_calls, results, h0, proc>>

-----------------------------------------------------------------------------
(* The pending calls of a turn. Each ends well ("ok"), raises an Exception *)
(* ("fail") or is cut by an interrupt, which no except Exception catches.  *)

Outcomes == {"ok", "fail", "interrupt"}

\* The interrupt leaves the animations as they are.
Interrupted ==
    /\ Unwind("interrupt")
    /\ out' = <<>>
    /\ UNCHANGED <<thinking, tool_thinking>>

\* chat_with_gemini: chat.send_message
DC_Model ==
    /\ pc = "dc_model"
    /\ \E o \in Outcomes :
        CASE o = "ok" ->
                /\ model_calls' = model_calls + 1
                /\ reply' = <<Prose>>
                /\ AppendModelTurn("direct response")
                /\ thinking' = FALSE
                /\ returned' = <<WholeResponse>>
                /\ out' = Append(out, "Markdown")
                /\ pc' = "handled"
                /\ UNCHANGED <<user_input, tool_calls, idx, call, result, result_content, final_response,
                               tool_thinking, invoked, results, raised, h0, exit_cause>>
          [] o = "fail" ->
                /\ model_calls' = model_calls + 1
                /\ thinking' = FALSE
                /\ returned' = <<ErrorText>>
                /\ out' = out \o <<"Error (chat_with_gemini)", "Markdown">>
                /\ raised' = raised + 1
                /\ pc' = "handled"
                /\ UNCHANGED <<user_input, reply, chat_history, tool_calls, idx,
                               call, result, result_content, final_response, tool_thinking, invoked,
                               results, h0, exit_cause>>
          [] o = "interrupt" ->
                /\ Interrupted
                /\ UNCHANGED chat_history
    /\ UNCHANGED <<session, connected_server, exit_stack, installs, cleanups, ops>>

\* process_query: await self.session.list_tools(), outside the try.
PQ_ListTools ==
    /\ pc = "pq_list"
    /\ \E o \in Outcomes :
        /\ o = "ok" => session.initialized
        /\ CASE o = "ok" ->
                /\ thinking' = TRUE
                /\ pc' = "pq_model"
                /\ UNCHANGED <<user_input, reply, tool_calls, idx, call, result, result_content,
                               final_response, returned, tool_thinking, ghost,
                               exit_cause>>
             [] o = "fail" ->
                /\ out' = Append(out, LoopError)
                /\ raised' = raised + 1
                /\ pc' = "handled"
                /\ UNCHANGED <<user_input, turn, invoked, model_calls, results, h0,
                               exit_cause>>
             [] o = "interrupt" ->
                Interrupted
    /\ UNCHANGED <<prog, cleanups, ops>>

\* process_query: the first chat.send_message, and re.findall on its text.
PQ_Model(replies) ==
    /\ pc = "pq_model"
    /\ \E o \in Outcomes :
        CASE o = "ok" ->
                \E r \in replies :
                    /\ model_calls' = model_calls + 1
                    /\ reply' = r
                    /\ AppendModelTurn("tool response")
                    /\ tool_calls' = FindAll(ResponseText(r))
                    /\ IF tool_calls' # <<>>
                       THEN /\ idx' = 1
                            /\ pc' = "pq_loop"
                            /\ UNCHANGED <<thinking, returned, out>>
                       ELSE /\ thinking' = FALSE
                            /\ returned' = <<WholeResponse>>
                            /\ out' = Append(out, "Markdown")
                            /\ pc' = "handled"
                            /\ UNCHANGED idx
                    /\ UNCHANGED <<user_input, call, result, result_content, final_response, tool_thinking,
                                   invoked, results, raised, h0, exit_cause>>
          [] o = "fail" ->
                /\ model_calls' = model_calls + 1
                /\ thinking' = FALSE
                /\ returned' = <<ErrorText>>
                /\ out' = out \o <<"Error (process_query)", "Markdown">>
                /\ raised' = raised + 1
                /\ pc' = "handled"
                /\ UNCHANGED <<user_input, reply, chat_history, tool_calls, idx,
                               call, result, result_content, final_response, tool_thinking, invoked,
                               results, h0, exit_cause>>
          [] o = "interrupt" ->
                /\ Interrupted
                /\ UNCHANGED chat_history
    /\ UNCHANGED <<session, connected_server, exit_stack, installs, cleanups, ops>>

\* Faulty except clauses that leave the for loop at the first error.
NextGroup_Break(printed, note, how) ==
    /\ out' = Append(out, printed)
    /\ final_response' = Append(final_response, note)
    /\ results' = Append(results, how)
    /\ raised' = raised + 1
    /\ idx' = Len(tool_calls) + 1
    /\ pc' = "pq_loop"

\* The except clauses of the for loop: the note is appended and the loop
\* goes to the next group.
NextGroup(printed, note, how) ==
    /\ out' = Append(out, printed)
    /\ final_response' = Append(final_response, note)
    /\ results' = Append(results, how)
    /\ raised' = raised + 1
    /\ idx' = idx + 1
    /\ pc' = "pq_loop"

\* for tool_call_json in tool_calls: json.loads, the prints, and the call
\* of session.call_tool.
PQ_Next ==
    /\ pc = "pq_loop"
    /\ idx <= Len(tool_calls)
    /\ LET g == tool_calls[idx]
       IN  IF JsonLoadsOk(g)
           THEN /\ call' = [tool_name |-> DictGet(g, "tool_name", None),
                            parameters |-> DictGet(g, "parameters", "{}")]
                /\ thinking' = FALSE
                /\ out' = Append(out, "Executing tool")
                /\ tool_thinking' = tool_thinking + 1
                /\ invoked' = Append(invoked, call')
                /\ pc' = "pq_tool"
                /\ UNCHANGED <<final_response, results, raised, idx, result,
                               result_content>>
           ELSE /\ NextGroup("Error: Invalid JSON format in tool call",
                             InvalidFormat(idx), "invalid json")
                /\ UNCHANGED <<call, result, result_content, thinking, tool_thinking, invoked>>
    /\ UNCHANGED <<prog, user_input, reply, tool_calls, returned, model_calls, h0,
                   proc>>

\* await self.session.call_tool(tool_name, parameters), then the cleaning
\* of its result.
PQ_Tool(outputs) ==
    /\ pc = "pq_tool"
    /\ \E o \in Outcomes :
        CASE o = "ok" /\ ~CleanRaises(call.tool_name) ->
                \E content \in outputs :
                    /\ result' = content
                    /\ tool_thinking' = tool_thinking - 1
                    /\ result_content' = clean_tool_output(call.tool_name, content)
                    /\ final_response' = Append(final_response,
                            ResultStr(idx, call.tool_name, result_content'))
                    /\ thinking' = TRUE
                    /\ pc' = "pq_follow"
                    /\ UNCHANGED <<user_input, reply, tool_calls, idx, call, returned,
                                   ghost, exit_cause>>
          [] o = "ok" /\ CleanRaises(call.tool_name) ->
                \E content \in outputs :
                    /\ result' = content
                    /\ tool_thinking' = tool_thinking - 1
                    /\ NextGroup("Error executing tool", ErrorExecuting(idx),
                                 "clean failed")
                    /\ UNCHANGED <<user_input, reply, tool_calls, call, result_content,
                                   returned, thinking, invoked, model_calls, h0,
                                   exit_cause>>
          [] o = "fail" ->
                /\ NextGroup("Error executing tool", ErrorExecuting(idx), "tool failed")
                /\ UNCHANGED <<user_input, reply, tool_calls, call, result, result_content, returned,
                               thinking, tool_thinking, invoked, model_calls, h0,
                               exit_cause>>
          [] o = "interrupt" ->
                Interrupted
    /\ UNCHANGED <<prog, cleanups, ops>>

\* chat.send_message(followup_system_prompt)
PQ_Follow ==
    /\ pc = "pq_follow"
    /\ \E o \in Outcomes :
        CASE o = "ok" ->
                /\ model_calls' = model_calls + 1
                /\ final_response' = Append(final_response,
                                            Narration(idx, call.tool_name))
                /\ AppendModelTurn("narration")
                /\ results' = Append(results, "ok")
                /\ idx' = idx + 1
                /\ pc' = "pq_loop"
                /\ UNCHANGED <<user_input, reply, tool_calls, call, result, result_content, returned,
                               thinking, tool_thinking, out, invoked, raised, h0,
                               exit_cause>>
          [] o = "fail" ->
                /\ model_calls' = model_calls + 1
                /\ NextGroup("Error executing tool", ErrorExecuting(idx),
                             "followup failed")
                /\ UNCHANGED <<user_input, reply, tool_calls, call, result, result_content, returned,
                               thinking, tool_thinking, invoked, h0, chat_history,
                               exit_cause>>
          [] o = "interrupt" ->
                /\ Interrupted
                /\ UNCHANGED chat_history
    /\ UNCHANGED <<session, connected_server, exit_stack, installs, cleanups, ops>>

\* After the loop: thinking.stop() and return "\n".join(final_response).
PQ_Return ==
    /\ pc = "pq_loop"
    /\ idx > Len(tool_calls)
    /\ thinking' = FALSE
    /\ returned' = Join(final_response)
    /\ out' = Append(out, "Markdown")
    /\ pc' = "handled"
    /\ UNCHANGED <<prog, user_input, reply, tool_calls, idx, call, result, result_content, final_response,
                   tool_thinking, invoked, model_calls, results, raised, h0, proc>>

-----------------------------------------------------------------------------

Next ==
    \/ NewClient
    \/ StartupNoArg
    \/ StartupConnect
    \/ cleanup
    \/ LoopBack
    \/ ExitCmd
    \/ ConnectCmd
    \/ ConnectServerCmd
    \/ PrintCmd
    \/ ToolsCmd
    \/ UseCmd
    \/ ChatCmd
    \/ PromptInterrupt
    \/ PromptEOF
    \/ DC_Model
    \/ PQ_ListTools
    \/ PQ_Model(Replies(Blocks))
    \/ PQ_Next
    \/ PQ_Tool({ToolOutput})
    \/ PQ_Follow
    \/ PQ_Return

Spec == Init /\ [][Next]_vars

-----------------------------------------------------------------------------
(* One turn of the tool-augmented path over every kind of fenced block.    *)

\* The client after "python cli.py server.py" connected: the first prompt.
InitExtract ==
    /\ pc = "prompt"
    /\ chat_history = <<>>
    /\ session = [server |-> "server.py", initialized |-> TRUE, at |-> 2]
    /\ connected_server = "server.py"
    /\ exit_stack = <<Ctx("stdio_client", "server.py"), Ctx("ClientSession", "server.py")>>
    /\ installs = 0
    /\ user_input = <<>>
    /\ reply = <<>>
    /\ tool_calls = <<>>
    /\ idx = 0
    /\ call = NoCall
    /\ result = NoText
    /\ result_content = NoText
    /\ final_response = <<>>
    /\ returned = NoText
    /\ thinking = FALSE
    /\ tool_thinking = 0
    /\ out = <<>>
    /\ invoked = <<>>
    /\ model_calls = 0
    /\ results = <<>>
    /\ raised = 0
    /\ h0 = 0
    /\ cleanups = 0
    /\ exit_cause = None
    /\ ops = MaxOps - 1

NextExtract ==
    \/ ChatCmd
    \/ UseCmd
    \/ PQ_ListTools
    \/ PQ_Model(Replies(AllBlocks))
    \/ PQ_Next
    \/ PQ_Tool({ToolOutput})
    \/ PQ_Follow
    \/ PQ_Return
    \/ cleanup

SpecExtract == InitExtract /\ [][NextExtract]_vars

-----------------------------------------------------------------------------
(* Properties.                                                             *)

\* The Turns the handling of the current line has appended.
Appended == SubSeq(chat_history, h0 + 1, Len(chat_history))

\* The handler of a line of this branch of chat_loop has returned.
LineDone(kinds) == pc = "handled" /\ Branch(user_input) \in kinds

\* The model answered the first send_message of the turn.
ModelAnswered == reply # <<>>

\* The fenced blocks of the model's answer, in order of appearance.
IsBlock(seg) == seg.kind # "prose"
BlocksOf(r) == SelectSeq(r, IsBlock)

\* The request a well-formed block asks for.
Request(seg) ==
    [tool_name |-> seg.name,
     parameters |-> IF seg.kind = "noparams" THEN "{}" ELSE seg.params]

\* A direct-chat turn is over: a chat line handled with no session.
DirectChatDone == LineDone({"chat"}) /\ session = NoSession

ToolTurnDone == LineDone({"chat", "use"}) /\ tool_calls # <<>>

\* Every block of the answer was a tool call that succeeded and was narrated.
AllSucceeded ==
    /\ Len(results) = Len(BlocksOf(reply))
    /\ \A i \in 1..Len(results) : results[i] = "ok"

\* result 1, narration 1, result 2, narration 2, ... for the blocks of r
ResultsAndNarrations(r) ==
    [j \in 1..(2 * Len(BlocksOf(r))) |->
        LET i == (j + 1) \div 2
            name == BlocksOf(r)[i].name
        IN  IF j % 2 = 1
            THEN ResultStr(i, name, clean_tool_output(name, ToolOutput))
            ELSE Narration(i, name)]

Requests(r) == [i \in 1..Len(BlocksOf(r)) |-> Request(BlocksOf(r)[i])]

\* The pieces of the returned text, the joining newlines dropped.
NotNL(piece) == piece # NL
PiecesOf(text) == SelectSeq(text, NotNL)

\* C2: when the answer holds k tool calls that all succeed, the text
\* returned for the turn is result 1, narration 1, result 2, narration 2,
\* ... in the order the blocks appeared (joined by newlines), and each call
\* was invoked exactly once with the tool name and parameters of its block.
C2_ToolPathText ==
    (ToolTurnDone /\ AllSucceeded) =>
        /\ PiecesOf(returned) = ResultsAndNarrations(reply)
        /\ \A j \in 1..Len(returned) : (returned[j] = NL) <=> (j % 2 = 0)
        /\ invoked = Requests(reply)

C2_Witness ==
    /\ ToolTurnDone
    /\ AllSucceeded
    /\ Len(invoked) = 2
    /\ invoked[1].tool_name # invoked[2].tool_name

\* Piece a is directly followed by piece b in the returned text.
Adjacent(a, b) ==
    \E j \in 1..(Len(PiecesOf(returned)) - 1) :
        PiecesOf(returned)[j] = a /\ PiecesOf(returned)[j + 1] = b

IsLoadable(g) == JsonLoadsOk(g)

\* The steps of a turn from which an Exception could leave the loop.
TurnPcs == {"dc_model", "pq_list", "pq_model", "pq_loop", "pq_tool", "pq_follow"}

\* C3: when tool call i of a turn fails, the returned text holds an error
\* note for call i, every other extracted call is still invoked, each later
\* call that succeeds has its result followed by its narration, and the
\* failure does not end the process: only an interrupt leaves a pending
\* tool call for the shutdown.
C3_AtReturn ==
    ToolTurnDone =>
        \A i \in 1..Len(results) :
            results[i] = "tool failed" =>
                /\ \E j \in 1..Len(returned) : returned[j] = ErrorExecuting(i)
                /\ Len(results) = Len(tool_calls)
                /\ Len(invoked) = Len(SelectSeq(tool_calls, IsLoadable))
                /\ \A k \in (i + 1)..Len(results) :
                      results[k] = "ok" =>
                          \E name \in {invoked[n].tool_name : n \in 1..Len(invoked)} :
                              Adjacent(ResultStr(k, name,
                                                 clean_tool_output(name, ToolOutput)),
                                       Narration(k, name))

C3_Step ==
    (pc = "pq_tool" /\ pc' # "pq_tool") =>
        \/ pc' \in {"pq_loop", "pq_follow"}
        \/ pc' = "cleanup" /\ exit_cause' = "interrupt"

C3_ToolFailure == [](C3_AtReturn) /\ [][C3_Step]_vars

C3_Witness ==
    /\ ToolTurnDone
    /\ results = <<"tool failed", "ok">>
    /\ Len(invoked) = 2

IsWellFormed(seg) == seg.kind \in WellFormedKinds
IsMalformed(seg) == seg.kind \in MalformedKinds
WellFormedBlocks(r) == SelectSeq(r, IsWellFormed)

\* The requests extraction yields: the groups found that load as an object.
RequestOf(g) ==
    [tool_name |-> DictGet(g, "tool_name", None),
     parameters |-> DictGet(g, "parameters", "{}")]
Loadable == SelectSeq(tool_calls, IsLoadable)
ExtractedRequests == [i \in 1..Len(Loadable) |-> RequestOf(Loadable[i])]

\* C4: an answer holding k well-formed fenced tool-call blocks yields exactly
\* the k requests of those blocks, in order of appearance; an answer with no
\* block yields none.
C4_Extraction ==
    (ModelAnswered /\ session # NoSession) =>
        ExtractedRequests =
            [i \in 1..Len(WellFormedBlocks(reply)) |->
                Request(WellFormedBlocks(reply)[i])]

\* The error reports of extraction in what the turn printed and returned.
IsInvalidJsonPrint(line) == line = "Error: Invalid JSON format in tool call"
IsInvalidFormatNote(piece) == piece.t = "Error: Invalid tool call format detected."

\* The answer holds exactly one malformed block, and its other blocks are
\* well-formed blocks free of backticks.
OneMalformed(r) ==
    /\ Len(SelectSeq(r, IsMalformed)) = 1
    /\ \A i \in 1..Len(r) : r[i].kind \in MalformedKinds \cup {"prose", "call", "noparams"}

\* C5: when the answer holds one malformed block among k-1 well-formed ones,
\* at whatever position, the turn invokes exactly the k-1 well-formed calls,
\* each once and in order, and reports exactly one extraction failure
\* ("invalid tool call format").
C5_OneMalformed ==
    (LineDone({"chat", "use"}) /\ ModelAnswered /\ OneMalformed(reply)) =>
        /\ invoked = [i \in 1..Len(WellFormedBlocks(reply)) |->
                         Request(WellFormedBlocks(reply)[i])]
        /\ Len(SelectSeq(out, IsInvalidJsonPrint)) = 1
        /\ Len(SelectSeq(returned, IsInvalidFormatNote)) = 1

\* The connections held open: the ClientSession contexts in exit_stack.
IsClientSession(c) == c.ctx = "ClientSession"
OpenConnections(stack) == Len(SelectSeq(stack, IsClientSession))

\* This step is a /connect or /connect-server that succeeded.
ConnectSucceeded ==
    /\ pc = "prompt"
    /\ pc' = "handled"
    /\ Branch(user_input') \in {"connect", "connect-server"}
    /\ out' = ConnectPrints("ok")

\* C6: after a connect that succeeds while another connection is active,
\* exactly one connection is open.
C6_OneConnection ==
    [][(session.initialized /\ ConnectSucceeded) =>
           OpenConnections(exit_stack') = 1]_vars

\* C7: when the first model call of a turn fails (or the enumeration of
\* tools before it), no user Turn of the turn is left as the last Turn of
\* the history: it is absent or followed by a resolving Turn. (A Turn has
\* the fields role and parts only; nothing can mark it unanswered.)
C7_NoOrphan ==
    (LineDone({"chat", "use"}) /\ ~ModelAnswered) =>
        \A j \in 1..Len(Appended) :
            IsUserTurn(Appended[j]) => j < Len(Appended)

\* C8: once the client is constructed, every way main() ends has run
\* cleanup exactly once, and released every context; cleanup never runs
\* before the end.
C8_CleanupOnce ==
    /\ cleanups <= 1
    /\ pc # "done" => cleanups = 0
    /\ (pc = "done" /\ exit_cause # "no api key") =>
            cleanups = 1 /\ exit_stack = <<>>

C8_Witness ==
    /\ pc = "done"
    /\ exit_cause = "interrupt"
    /\ session.initialized
    /\ chat_history # <<>>

IsPrefix(a, b) == Len(a) <= Len(b) /\ SubSeq(b, 1, Len(a)) = a

\* C9: the history is append-only: in every step the history before is a
\* prefix of the history after, across both chat paths and connects.
C9_AppendOnly == [][IsPrefix(chat_history, chat_history')]_vars

C9_Witness ==
    \E i, j \in 1..Len(chat_history) :
        /\ i < j
        /\ chat_history[i].parts = "direct response"
        /\ chat_history[j].parts = "narration"

\* What the handlers print for an Exception.
ErrorReports ==
    {LoopError, "Error connecting to server", "Error (chat_with_gemini)",
     "Error (process_query)", "Error: Invalid JSON format in tool call",
     "Error executing tool"}
IsErrorReport(line) == line \in ErrorReports
Reported == Len(SelectSeq(out, IsErrorReport))

LoopPcs == TurnPcs \cup {"prompt", "handled"}

\* C10: every Exception raised while one line is handled is caught and
\* reported, and the loop prompts again; the loop ends only by /exit or
\* /quit or by an interrupt.
C10_Reported == pc = "handled" => raised = Reported

C10_Step ==
    /\ (pc = "handled" /\ pc' # pc) => pc' = "prompt"
    /\ (pc \in LoopPcs /\ pc' \notin LoopPcs) =>
            pc' = "cleanup" /\ exit_cause' \in {"exit", "interrupt"}

C10_LoopSurvives == [](C10_Reported) /\ [][C10_Step]_vars

C10_Witness ==
    /\ pc = "handled"
    /\ raised = 2
    /\ results = <<"tool failed", "followup failed">>

\* This step is a connect attempt (at start-up or by command) that failed.
ConnectFailed ==
    /\ pc \in {"main", "prompt"}
    /\ ops' = ops + 1
    /\ raised' = raised + 1
    /\ pc = "prompt" => Branch(user_input') \in {"connect", "connect-server"}

\* C11: when no session is active and a connect attempt fails at whatever
\* step, no session is active afterwards (so the next utterance takes the
\* direct-chat path).
C11_FailedConnectNoSession ==
    [][(session = NoSession /\ ConnectFailed) => session' = NoSession]_vars

\* The commands of the command surface, as branches of chat_loop.
ListedCommands == {"exit", "connect", "connect-server", "servers", "tools", "help"}

\* A line that begins with '/' and is none of the listed commands.
IsUnlistedSlash(u) == StartsWithSlash(u) /\ Branch(u) \notin ListedCommands

\* C12: a line beginning with '/' that is none of the listed commands is
\* rejected with a visible message and causes no model call, no tool call
\* and no change of the history; a non-empty line that does not begin with
\* '/' is handled as a chat utterance.
C12_UnknownRejected ==
    /\ (pc \in LoopPcs /\ IsUnlistedSlash(user_input)) =>
            /\ model_calls = 0
            /\ invoked = <<>>
            /\ Appended = <<>>
            /\ pc = "handled" => out # <<>>
    /\ (pc = "handled" /\ user_input # <<>> /\ ~StartsWithSlash(user_input)) =>
            /\ Branch(user_input) = "chat"
            /\ Len(Appended) >= 1
            /\ IsUserTurn(Appended[1])

\* C13: when GEMINI_API_KEY is missing, the process ends with a non-zero
\* status straight from the constructor: no prompt was shown, no connect
\* was attempted, no connection is open and no history exists.
C13_Ended ==
    exit_cause = "no api key" =>
        /\ pc = "done"
        /\ ExitStatus(exit_cause) # 0
        /\ ops = 0
        /\ exit_stack = <<>>
        /\ session = NoSession
        /\ connected_server = None
        /\ chat_history = <<>>
        /\ out = <<>>

C13_Step ==
    (exit_cause' = "no api key" /\ exit_cause # "no api key") =>
        pc = "start" /\ pc' = "done"

C13_MissingKey == [](C13_Ended) /\ [][C13_Step]_vars

C13_Witness == exit_cause = "no api key" /\ pc = "done" /\ cleanups = 0

-----------------------------------------------------------------------------
(* The cleaning of tool results, over tool names of every family and raw   *)
(* outputs around the limit of 1000 characters.                            *)

CleanToolNames ==
    {"playwright_get_content", "playwright_fill", "playwright_screenshot",
     "playwright_navigate", "playwright_click", "get_content", "search"}

Text(n) == Run("text", n, "page")
Sp(n) == Run("ws", n, " ")
FenceLine == Run("fenceline", 8, "3 backticks html newline")
Fence == Run("fence", 3, "3 backticks")

TextLens == {1, 994, 996, 997, 998, 999, 1000, 1001, 1002, 1005}

RawOutputs ==
    {pre \o mid \o post :
        pre \in {<<>>, <<Sp(2)>>, <<FenceLine>>, <<FenceLine, Sp(1)>>},
        mid \in {<<>>, <<Fence>>} \cup {<<Text(n)>> : n \in TextLens}
                \cup {<<Text(500), Fence, Sp(1), Text(500)>>},
        post \in {<<>>, <<Sp(1)>>, <<Fence>>, <<Sp(1), Fence>>}}

\* process_query waits for call_tool: the model asked for one tool by name.
InitClean ==
    /\ pc = "pq_tool"
    /\ \E t \in CleanToolNames :
        /\ reply = <<Prose, Seg("call", t, "q=cats")>>
        /\ call = [tool_name |-> t, parameters |-> "q=cats"]
    /\ tool_calls = FindAll(ResponseText(reply))
    /\ chat_history = <<Turn("user", "query", 1), Turn("model", "tool response", 1)>>
    /\ session = [server |-> "playwright", initialized |-> TRUE, at |-> 2]
    /\ connected_server = "playwright"
    /\ exit_stack = <<Ctx("stdio_client", "playwright"), Ctx("ClientSession", "playwright")>>
    /\ installs = 1
    /\ user_input = <<"hello">>
    /\ idx = 1
    /\ result = NoText
    /\ result_content = NoText
    /\ final_response = <<>>
    /\ returned = NoText
    /\ thinking = FALSE
    /\ tool_thinking = 1
    /\ out = <<"Executing tool">>
    /\ invoked = <<call>>
    /\ model_calls = 1
    /\ results = <<>>
    /\ raised = 0
    /\ h0 = 0
    /\ cleanups = 0
    /\ exit_cause = None
    /\ ops = 2

NextClean ==
    \/ PQ_Tool(RawOutputs)
    \/ PQ_Follow
    \/ PQ_Return
    \/ cleanup

SpecClean == InitClean /\ [][NextClean]_vars

\* The result of the call has just been cleaned.
Cleaned == pc = "pq_follow"

\* A content-extraction tool of the browser-automation family.
IsContentExtraction(tool_name) ==
    /\ InName("playwright", tool_name)
    /\ InName("get", tool_name)
    /\ InName("content", tool_name)
    /\ ~InName("screenshot", tool_name)
    /\ ~InName("navigate", tool_name)
    /\ ~InName("goto", tool_name)
    /\ ~InName("click", tool_name)

\* The raw output once its fences are removed and it is trimmed.
Trimmed(output) == Strip(StripFences(output))

\* C14 (as stated): for a content-extraction tool a raw output of exactly
\* 1000 characters is returned unmodified, one of 1001 characters is
\* returned as its first 997 characters and a 3-character marker, and no
\* cleaned output is longer than 1000 characters.
C14_AsStated ==
    (Cleaned /\ IsContentExtraction(call.tool_name)) =>
        /\ StrLen(result) = 1000 => result_content = result
        /\ StrLen(result) = 1001 =>
                /\ result_content = Take(result, 997) \o <<Dots>>
                /\ StrLen(result_content) = 1000
        /\ StrLen(result_content) <= 1000

\* C14 (amended): for a content-extraction tool of the browser-automation
\* family the limit applies to the output after its fences are removed and
\* it is trimmed: with exactly 1000 characters left that text is returned
\* as it is, with 1001 left its first 997 characters and a 3-character
\* marker are returned (1000 in total), and no cleaned output is longer
\* than 1000 characters.
C14_Truncation ==
    (Cleaned /\ IsContentExtraction(call.tool_name)) =>
        /\ StrLen(Trimmed(result)) = 1000 => result_content = Trimmed(result)
        /\ StrLen(Trimmed(result)) = 1001 =>
                /\ result_content = Take(Trimmed(result), 997) \o <<Dots>>
                /\ StrLen(result_content) = 1000
        /\ StrLen(result_content) <= 1000

C14_Witness ==
    /\ Cleaned
    /\ IsContentExtraction(call.tool_name)
    /\ StrLen(Trimmed(result)) = 1001
    /\ StrLen(result) > 1001
    /\ StrLen(result_content) = 1000

\* The cleaning cut the output at the limit.
WasTruncated ==
    IsContentExtraction(call.tool_name) /\ StrLen(Trimmed(result)) > 1000

\* C15: cleaning is idempotent on outputs that are not truncated: cleaning
\* the cleaned result of a tool again, for the same tool, gives the same
\* text, for browser-automation tools and for pass-through tools.
C15_Idempotent ==
    (Cleaned /\ ~WasTruncated) =>
        clean_tool_output(call.tool_name, result_content) = result_content

C15_Witness ==
    /\ Cleaned
    /\ call.tool_name = "playwright_fill"
    /\ result_content # result
    /\ Len(SelectSeq(result, NotFence)) + 2 = Len(result)
    /\ StrLen(Strip(result_content)) > 0

\* A Turn of the history that holds the text of a tool result.
IsToolResultTurn(t) == t.parts = "tool result"
IsNarrationTurn(t) == t.parts = "narration"

\* The narration Turns the turn has appended, in order.
NarrationsAppended == SelectSeq(Appended, IsNarrationTurn)

\* C16: for each tool call executed in a turn, the tool-result text and the
\* narration Turn are both appended to the history, the result before its
\* narration.
C16_ResultInHistory ==
    ToolTurnDone =>
        \A i \in 1..Len(results) :
            results[i] = "ok" =>
                \E j \in 1..(Len(Appended) - 1) :
                    /\ IsToolResultTurn(Appended[j])
                    /\ IsNarrationTurn(Appended[j + 1])

\* The blocks of the answer that are tool calls, in order of appearance.
IsCallSeg(seg) == seg.kind = "call"
CallsOf(r) == SelectSeq(r, IsCallSeg)

\* The invocations of the turn that are over, with their follow-up.
IsInvocationResult(how) == how # "invalid json"
Completed == Len(SelectSeq(results, IsInvocationResult))
IsOk(how) == how = "ok"

\* C17: within a turn the tool calls are invoked in order of appearance and
\* one at a time: at most one invocation is under way, and call N+1 is
\* invoked only when call N is over, its follow-up model call has finished
\* and its narration is in the history.
C17_InOrder ==
    /\ Len(invoked) <= Len(CallsOf(reply))
    /\ \A k \in 1..Len(invoked) : invoked[k] = Request(CallsOf(reply)[k])
    /\ Len(invoked) - Completed = IF pc \in {"pq_tool", "pq_follow"} THEN 1 ELSE 0

C17_Step ==
    invoked' # invoked =>
        \/ invoked' = <<>>
        \/ /\ invoked' = Append(invoked, Request(CallsOf(reply)[Len(invoked) + 1]))
           /\ Completed = Len(invoked)
           /\ Len(NarrationsAppended) = Len(SelectSeq(results, IsOk))
           /\ model_calls = 1 + Len(SelectSeq(results, IsOk))
                              + Len(SelectSeq(results, LAMBDA h : h = "followup failed"))

C17_Sequential == [](C17_InOrder) /\ [][C17_Step]_vars

C17_Witness ==
    /\ pc = "pq_tool"
    /\ results = <<"ok">>
    /\ Len(invoked) = 2
    /\ invoked[1] # invoked[2]
    /\ Len(NarrationsAppended) = 1

\* The invocations of the turn for which call_tool returned a result.
InvocationSucceeded(how) == how \in {"ok", "followup failed", "clean failed"}

\* C18: on the tool-augmented path one utterance causes exactly one first
\* model call and exactly one follow-up model call per tool call whose
\* invocation succeeded; when no tool call is extracted there is no further
\* model call and the first answer is returned as it is.
C18_ModelCalls ==
    (LineDone({"chat", "use"}) /\ session # NoSession /\ ModelAnswered) =>
        /\ model_calls = 1 + Len(SelectSeq(results, InvocationSucceeded))
        /\ tool_calls = <<>> => (model_calls = 1 /\ returned = <<WholeResponse>>)

\* C19: a tool call whose name is not among the tools enumerated for the
\* session is not forwarded to the tool process: every invocation names an
\* enumerated tool.
C19_OnlyEnumerated ==
    \A k \in 1..Len(invoked) : invoked[k].tool_name \in EnumeratedTools

\* The group has a member "parameters".
IsParamsMember(tok) == tok.t = "parameters"
HasParameters(g) == SelectSeq(Inner(g), IsParamsMember) # <<>>

\* C20: a parsed block without tool_name is never invoked, and a block
\* without parameters is invoked with an empty mapping.
C20_NameRequired ==
    \A k \in 1..Len(invoked) :
        /\ invoked[k].tool_name # None
        /\ (k <= Len(Loadable) /\ ~HasParameters(Loadable[k])) =>
                invoked[k].parameters = "{}"

\* C21: the installation of the browsers runs at most once per process:
\* once it has run, connecting to the browser-automation server again does
\* not run it again.
C21_InstallOnce == installs <= 1

\* C22: every progress indicator started during a turn is stopped when the
\* turn returns to the loop, whatever the outcome of the turn.
C22_IndicatorsStopped ==
    LineDone({"chat", "use"}) => (thinking = FALSE /\ tool_thinking = 0)

\* C23: at every prompt the connected-server label agrees with the session:
\* it is set exactly when a session is active, and it names the server of
\* the session the utterances are routed to.
C23_LabelAgrees ==
    pc = "prompt" =>
        /\ (connected_server # None) <=> (session # NoSession)
        /\ session # NoSession => connected_server = session.server

\* This step is the connect to the start-up argument, and it failed.
StartupConnectFailed == pc = "main" /\ ops' = ops + 1 /\ raised' = raised + 1

\* C24: when the connect to the start-up argument fails for whatever
\* reason, the process still enters the interactive loop, with no session.
C24_StartupFailureEntersLoop ==
    [][StartupConnectFailed => (pc' \in LoopPcs /\ session' = NoSession)]_vars

====
